---- MODULE Spec2Model ----
(***************************************************************************)
(* Model of src/app.py, the mosquito-control dashboard: the load stage of  *)
(* the script, preprocess_data (the wetland annotator), the geocoder and   *)
(* the address-search form with its results panel.                         *)
(*                                                                         *)
(* Geometry is modelled along one axis: a polygon is a closed interval     *)
(* [lo, hi] with lo < hi, a point is a coordinate, and distance, buffer    *)
(* and intersects are the planar operations restricted to that axis.       *)
(* Every feature of a collection that has a geometry column carries a      *)
(* geometry (no null geometries).                                          *)
(***************************************************************************)
EXTENDS Integers, Sequences, FiniteSets, TLC

VARIABLES
    pc,          \* position of the script run
    parcels,     \* script variable parcels
    wetlands,    \* script variable wetlands
    roads,       \* script variable roads
    errorShown,  \* exception reported to the user in this run ("none" if none)
    session,     \* st.session_state: the entries search_point and nearest_parcel
                 \* (<<>> while the key is absent)
    submitted,   \* st.form_submit_button("Search") of this run
    address,     \* st.text_input value of this run
    point,       \* result of geocoder.geocode in this run (<<>> is None)
    lookupIdx,   \* position selected by argsort()[0] in this run (0: no lookup)
    panel,       \* what the search results panel displays in this run
    metricOps,   \* log of the metric geometry operations executed, with their CRS
    argsortTie,  \* how the build's unstable argsort orders equal keys
    cache,       \* st.cache_data entry of preprocess_data (<<>> while empty)
    argParcels,  \* the collection object passed to preprocess_data, after the call
    argBefore,   \* its value before the call
    callInfo     \* what the last preprocess_data call did

vars == <<pc, parcels, wetlands, roads, errorShown, session, submitted, address,
          point, lookupIdx, panel, metricOps, argsortTie, cache, argParcels,
          argBefore, callInfo>>

----------------------------------------------------------------------------
(* Bounds of the model *)

MaxCoord == 4
GridStep == 60
MaxParcels == 2
MaxWetlands == 1
MaxRoads == 1
MaxReload == 1

(* Program constants *)

BufferDistance == 100

----------------------------------------------------------------------------
(* Geometry *)

Coords == {i * GridStep : i \in 0..MaxCoord}

Intervals == {g \in [lo : Coords, hi : Coords] : g.lo < g.hi}

SeqsUpTo(S, n) == UNION {[1..k -> S] : k \in 0..n}

Min(S) == CHOOSE m \in S : \A n \in S : m <= n

Max(S) == CHOOSE m \in S : \A n \in S : m >= n

\* shapely distance between a polygon and a point: 0 inside or on the boundary
Distance(g, x) ==
    IF x < g.lo THEN g.lo - x
    ELSE IF x > g.hi THEN x - g.hi
    ELSE 0

\* shapely buffer: the region within d of the geometry
Buffer(g, d) == [lo |-> g.lo - d, hi |-> g.hi + d]

\* shapely intersects: the two geometries share at least one position
Intersects(a, b) == a.lo <= b.hi /\ b.lo <= a.hi

StrictlyInside(x, g) == g.lo < x /\ x < g.hi

----------------------------------------------------------------------------
(* Feature collections (GeoDataFrames) *)

\* CRS of a collection read from GeoJSON; the script never calls to_crs
GeoJsonCRS == "geographic"

\* gpd.GeoDataFrame(): no rows, no columns
EmptyFrame ==
    [rows |-> 0, hasGeom |-> FALSE, crs |-> "none", geometry |-> <<>>,
     cols |-> {}, wetland_adjacent |-> <<>>, total_score |-> <<>>]

\* a collection read with a geometry column
Frame(geoms) ==
    [rows |-> Len(geoms), hasGeom |-> TRUE, crs |-> GeoJsonCRS, geometry |-> geoms,
     cols |-> {}, wetland_adjacent |-> <<>>, total_score |-> <<>>]

\* a source without geometries is read as a plain table of n rows
Table(n) ==
    [rows |-> n, hasGeom |-> FALSE, crs |-> "none", geometry |-> <<>>,
     cols |-> {}, wetland_adjacent |-> <<>>, total_score |-> <<>>]

Loadable(n) ==
    {Frame(s) : s \in SeqsUpTo(Intervals, n) \ {<<>>}} \cup {Table(k) : k \in 1..n}

\* load_geospatial_data: what the source returns, or an empty frame on any failure
load_geospatial_data(n) == Loadable(n) \cup {EmptyFrame}

IsEmpty(c) == c.rows = 0

----------------------------------------------------------------------------
(* preprocess_data *)

\* the except branch: the error is logged and the argument is returned as it is
PreprocessFailed(p, ops) ==
    [ret |-> p, arg |-> p, raised |-> TRUE, ops |-> ops]

\* the body of preprocess_data, lines 93-100
PreprocessBody(p, w) ==
    IF ~w.hasGeom
    THEN PreprocessFailed(p, {})                       \* _wetlands.geometry raises
    ELSE LET wetlands_buffer ==
                 [j \in 1..w.rows |-> Buffer(w.geometry[j], BufferDistance)]
             buffered == {[op |-> "buffer", crs |-> w.crs]}
         IN  IF ~p.hasGeom
             THEN PreprocessFailed(p, buffered)        \* _parcels.geometry raises
             ELSE LET adjacent ==
                          [i \in 1..p.rows |->
                              \E j \in 1..w.rows :
                                  Intersects(wetlands_buffer[j], p.geometry[i])]
                      annotated ==
                          [p EXCEPT !.cols = @ \cup {"wetland_adjacent", "total_score"},
                                    !.wetland_adjacent = adjacent,
                                    !.total_score =
                                        [i \in 1..p.rows |-> IF adjacent[i] THEN 1 ELSE 0]]
                  IN  \* the columns are assigned on _parcels itself; drop() copies
                      [ret |-> annotated, arg |-> annotated, raised |-> FALSE,
                       ops |-> buffered]

\* preprocess_data under st.cache_data: both parameters start with an underscore,
\* so neither is part of the cache key and every call after the first is a hit
preprocess_data(p, w, c) ==
    IF c # <<>>
    THEN [ret |-> c[1], arg |-> p, ran |-> TRUE, raised |-> FALSE, hit |-> TRUE,
          ops |-> {}, cache |-> c]
    ELSE LET b == PreprocessBody(p, w)
         IN  [ret |-> b.ret, arg |-> b.arg, ran |-> TRUE, raised |-> b.raised,
              hit |-> FALSE, ops |-> b.ops, cache |-> <<b.ret>>]

NoCall == [ran |-> FALSE, raised |-> FALSE, hit |-> FALSE]

\* line 65: parcels = preprocess_data(parcels, wetlands)
CallPreprocess(p, w) ==
    LET r == preprocess_data(p, w, cache)
    IN  /\ parcels' = r.ret
        /\ argBefore' = p
        /\ argParcels' = r.arg
        /\ callInfo' = [ran |-> r.ran, raised |-> r.raised, hit |-> r.hit]
        /\ metricOps' = metricOps \cup r.ops
        /\ cache' = r.cache

----------------------------------------------------------------------------
(* The script run: load stage, lines 53-69 *)

\* line of the def statement that binds each module-level function
DefinedAt == [load_geospatial_data |-> 38, preprocess_data |-> 92]

\* a module-level name is bound once the run has executed its def statement
NameBound(name, line) == DefinedAt[name] < line

RunLocalsReset ==
    /\ submitted' = FALSE
    /\ address' = ""
    /\ point' = <<>>
    /\ lookupIdx' = 0
    /\ panel' = <<>>

\* numpy's default argsort (quicksort) is not stable: which of several equal
\* distances comes first is fixed by the build, not by the collection order
TieBreaks == {"lowest", "highest"}

NoSession == [search_point |-> <<>>, nearest_parcel |-> <<>>]

Init ==
    /\ pc = "start"
    /\ parcels = EmptyFrame
    /\ wetlands = EmptyFrame
    /\ roads = EmptyFrame
    /\ errorShown = "none"
    /\ session = NoSession
    /\ submitted = FALSE
    /\ address = ""
    /\ point = <<>>
    /\ lookupIdx = 0
    /\ panel = <<>>
    /\ metricOps = {}
    /\ argsortTie \in TieBreaks
    /\ cache = <<>>
    /\ argParcels = EmptyFrame
    /\ argBefore = EmptyFrame
    /\ callInfo = NoCall

\* the with-block of lines 53-69, from the three loads to st.stop()
LoadStage ==
    /\ pc = "start"
    /\ \E p \in load_geospatial_data(MaxParcels),
          w \in load_geospatial_data(MaxWetlands),
          r \in load_geospatial_data(MaxRoads) :
          /\ wetlands' = w
          /\ roads' = r
          /\ IF IsEmpty(p) \/ IsEmpty(w) \/ IsEmpty(r)
             THEN /\ errorShown' = "ValueError"
                  /\ pc' = "stopped"
                  /\ parcels' = p
                  /\ UNCHANGED <<metricOps, cache, argParcels, argBefore, callInfo>>
             ELSE IF ~NameBound("preprocess_data", 65)
             THEN /\ errorShown' = "NameError"
                  /\ pc' = "stopped"
                  /\ parcels' = p
                  /\ UNCHANGED <<metricOps, cache, argParcels, argBefore, callInfo>>
             ELSE /\ CallPreprocess(p, w)
                  /\ errorShown' = "none"
                  /\ pc' = "ui"
    /\ UNCHANGED <<session, submitted, address, point, lookupIdx, panel, argsortTie>>

\* a widget interaction reruns the script from the top in a fresh namespace;
\* st.session_state and the st.cache_data entries outlive the run
Rerun ==
    /\ pc = "stopped"
    /\ pc' = "start"
    /\ parcels' = EmptyFrame
    /\ wetlands' = EmptyFrame
    /\ roads' = EmptyFrame
    /\ errorShown' = "none"
    /\ RunLocalsReset
    /\ argParcels' = EmptyFrame
    /\ argBefore' = EmptyFrame
    /\ callInfo' = NoCall
    /\ UNCHANGED <<session, metricOps, argsortTie, cache>>

Next == LoadStage \/ Rerun

Spec == Init /\ [][Next]_vars

----------------------------------------------------------------------------
(* Geocoder.geocode, lines 77-85 *)

Addresses == {"", "100 Main St"}

\* what the Nominatim service does with one request
GeocoderReplies ==
    {[kind |-> "found", x |-> c] : c \in Coords}
        \cup {[kind |-> "none", x |-> 0], [kind |-> "raised", x |-> 0]}

\* a Point for a location; None when nothing was found or the lookup raised
geocode(reply) == IF reply.kind = "found" THEN <<reply.x>> ELSE <<>>

----------------------------------------------------------------------------
(* Address search, lines 154-163 *)

\* the address test left out: the geocoder is asked whatever was typed
AddressGivenAlways(a) == TRUE

\* line 157: if address
AddressGiven(a) == a # ""

\* line 159: if point
PointFound(pt) == pt # <<>>

\* parcels.distance(point)
DistanceSeries(c, x) == [i \in 1..Len(c.geometry) |-> Distance(c.geometry[i], x)]

\* the order reversed: the position of a largest distance
ArgsortFarthest(dist, tie) ==
    IF Len(dist) = 0 THEN 0
    ELSE LET most == Max({dist[i] : i \in 1..Len(dist)})
             ties == {i \in 1..Len(dist) : dist[i] = most}
         IN  IF tie = "lowest" THEN Min(ties) ELSE Max(ties)

\* argsort()[0]: the position of a smallest distance (0 when the series is empty)
ArgsortFirst(dist, tie) ==
    IF Len(dist) = 0 THEN 0
    ELSE LET least == Min({dist[i] : i \in 1..Len(dist)})
             ties == {i \in 1..Len(dist) : dist[i] = least}
         IN  IF tie = "lowest" THEN Min(ties) ELSE Max(ties)

\* parcels.iloc[i]: the row as a Series named by its index
Row(c, i) ==
    [index |-> i,
     geometry |-> c.geometry[i],
     cols |-> c.cols,
     wetland_adjacent |->
         IF "wetland_adjacent" \in c.cols THEN <<c.wetland_adjacent[i]>> ELSE <<>>,
     total_score |->
         IF "total_score" \in c.cols THEN <<c.total_score[i]>> ELSE <<>>]

\* line 161 left out: only the point is stored
StorePointOnly(s, pt, row) == [s EXCEPT !.search_point = pt]

\* lines 160-161 when both assignments complete
StoreSearch(s, pt, row) ==
    [s EXCEPT !.search_point = pt, !.nearest_parcel = <<row>>]

\* the form of lines 154-163
AddressSearch ==
    /\ pc = "ui"
    /\ \E sub \in BOOLEAN, addr \in Addresses, reply \in GeocoderReplies :
          /\ submitted' = sub
          /\ address' = addr
          /\ IF sub /\ AddressGiven(addr)
             THEN LET pt == geocode(reply)
                  IN  /\ point' = pt
                      /\ IF PointFound(pt)
                         THEN IF ~parcels.hasGeom
                              THEN \* parcels.distance raises after line 160 ran
                                   /\ session' = [session EXCEPT !.search_point = pt]
                                   /\ errorShown' = "AttributeError"
                                   /\ pc' = "crashed"
                                   /\ UNCHANGED <<lookupIdx, metricOps>>
                              ELSE LET i == ArgsortFirst(DistanceSeries(parcels, pt[1]),
                                                         argsortTie)
                                       measured == {[op |-> "distance", crs |-> parcels.crs]}
                                   IN  IF i = 0
                                       THEN \* [0] on an empty result raises
                                            /\ session' = [session EXCEPT !.search_point = pt]
                                            /\ errorShown' = "IndexError"
                                            /\ pc' = "crashed"
                                            /\ lookupIdx' = 0
                                            /\ metricOps' = metricOps \cup measured
                                       ELSE /\ session' = StoreSearch(session, pt, Row(parcels, i))
                                            /\ lookupIdx' = i
                                            /\ metricOps' = metricOps \cup measured
                                            /\ pc' = "panel"
                                            /\ UNCHANGED errorShown
                         ELSE /\ errorShown' = "Address not found"
                              /\ pc' = "panel"
                              /\ UNCHANGED <<session, lookupIdx, metricOps>>
             ELSE /\ pc' = "panel"
                  /\ UNCHANGED <<point, session, lookupIdx, metricOps, errorShown>>
    /\ UNCHANGED <<parcels, wetlands, roads, panel, argsortTie, cache, argParcels,
                   argBefore, callInfo>>

\* the results panel of lines 166-180
SearchResults ==
    /\ pc = "panel"
    /\ IF session.search_point = <<>>
       THEN /\ pc' = "end"
            /\ UNCHANGED <<panel, errorShown>>
       ELSE IF session.nearest_parcel = <<>>
       THEN \* st.session_state.nearest_parcel raises
            /\ pc' = "crashed"
            /\ errorShown' = "AttributeError"
            /\ UNCHANGED panel
       ELSE LET parcel == session.nearest_parcel[1]
            IN  IF "total_score" \notin parcel.cols
                THEN \* parcel.total_score raises
                     /\ pc' = "crashed"
                     /\ errorShown' = "AttributeError"
                     /\ UNCHANGED panel
                ELSE /\ panel' = <<[marker |-> session.search_point[1],
                                    outline |-> parcel.geometry,
                                    total_score |-> parcel.total_score[1],
                                    wetland_adjacent |->
                                        IF parcel.wetland_adjacent[1] THEN "Yes" ELSE "No"]>>
                     /\ pc' = "end"
                     /\ UNCHANGED errorShown
    /\ UNCHANGED <<parcels, wetlands, roads, session, submitted, address, point,
                   lookupIdx, metricOps, argsortTie, cache, argParcels, argBefore,
                   callInfo>>

\* a rerun whose load stage delivers the same collections again
RerunSameData ==
    /\ pc \in {"end", "crashed"}
    /\ pc' = "ui"
    /\ errorShown' = "none"
    /\ RunLocalsReset
    /\ UNCHANGED <<parcels, wetlands, roads, session, metricOps, argsortTie, cache,
                   argParcels, argBefore, callInfo>>

\* one wetland and one road next to the origin, the layers of the search runs
UnitLayer == Frame(<<[lo |-> 0, hi |-> GridStep]>>)

\* a run that has reached line 146 with its three collections loaded and annotated
InitSearch ==
    /\ pc = "ui"
    /\ \E g \in SeqsUpTo(Intervals, MaxParcels) \ {<<>>} :
          /\ parcels = PreprocessBody(Frame(g), UnitLayer).ret
          /\ cache = <<parcels>>
    /\ wetlands = UnitLayer
    /\ roads = UnitLayer
    /\ errorShown = "none"
    /\ session = NoSession
    /\ submitted = FALSE
    /\ address = ""
    /\ point = <<>>
    /\ lookupIdx = 0
    /\ panel = <<>>
    /\ metricOps = {[op |-> "buffer", crs |-> UnitLayer.crs]}
    /\ argsortTie \in TieBreaks
    /\ argParcels = EmptyFrame
    /\ argBefore = EmptyFrame
    /\ callInfo = NoCall

NextSearch == AddressSearch \/ SearchResults \/ RerunSameData

SpecSearch == InitSearch /\ [][NextSearch]_vars

----------------------------------------------------------------------------
(* preprocess_data called on loaded collections *)

\* the three collections have passed the validation of line 61
InitAnnotate ==
    /\ pc = "loaded"
    /\ parcels \in Loadable(MaxParcels)
    /\ wetlands \in Loadable(MaxWetlands)
    /\ roads = UnitLayer
    /\ errorShown = "none"
    /\ session = NoSession
    /\ submitted = FALSE
    /\ address = ""
    /\ point = <<>>
    /\ lookupIdx = 0
    /\ panel = <<>>
    /\ metricOps = {}
    /\ argsortTie = "lowest"
    /\ cache = <<>>
    /\ argParcels = EmptyFrame
    /\ argBefore = EmptyFrame
    /\ callInfo = NoCall

\* line 65 with preprocess_data bound
Annotate ==
    /\ pc = "loaded"
    /\ CallPreprocess(parcels, wetlands)
    /\ pc' = "annotated"
    /\ UNCHANGED <<wetlands, roads, errorShown, session, submitted, address, point,
                   lookupIdx, panel, argsortTie>>

\* a later run: the parcels entry of load_geospatial_data has expired (ttl=3600)
\* and the source is read again (up to MaxReload features), while the
\* preprocess_data entry is still cached
Reload ==
    /\ pc = "annotated"
    /\ pc' = "loaded"
    /\ parcels' \in Loadable(MaxReload)
    /\ argParcels' = EmptyFrame
    /\ argBefore' = EmptyFrame
    /\ callInfo' = NoCall
    /\ UNCHANGED <<wetlands, roads, errorShown, session, submitted, address, point,
                   lookupIdx, panel, metricOps, argsortTie, cache>>

NextAnnotate == Annotate \/ Reload

SpecAnnotate == InitAnnotate /\ [][NextAnnotate]_vars

----------------------------------------------------------------------------
(* Properties *)

AnyEmpty == IsEmpty(parcels) \/ IsEmpty(wetlands) \/ IsEmpty(roads)

\* the wetland-buffer rule for parcel i of collection c against wetlands w
NearWetland(c, w, i) ==
    \E j \in 1..Len(w.geometry) :
        Intersects(Buffer(w.geometry[j], BufferDistance), c.geometry[i])

\* C1: after preprocess_data, every parcel of the returned collection has
\* wetland_adjacent = true iff its geometry intersects a wetland expanded by the
\* buffer distance, and total_score = 1 when adjacent and 0 otherwise.
C1_AnnotatesEveryParcel ==
    pc = "annotated" =>
        /\ {"wetland_adjacent", "total_score"} \subseteq parcels.cols
        /\ \A i \in 1..parcels.rows :
              /\ parcels.wetland_adjacent[i] <=> NearWetland(parcels, wetlands, i)
              /\ parcels.total_score[i] = IF parcels.wetland_adjacent[i] THEN 1 ELSE 0

LookupDone == lookupIdx # 0

C3_NearestLowestIndex ==
    LET d == DistanceSeries(parcels, point[1])
    IN  (LookupDone /\ \A i \in 1..parcels.rows : d[i] > 0) =>
            \A i \in 1..parcels.rows :
                /\ d[lookupIdx] <= d[i]
                /\ d[i] = d[lookupIdx] => lookupIdx <= i

\* C4: when the parcel collection is empty the run reports no error and is not
\* aborted.
C4_EmptyParcelsNoError ==
    (pc # "start" /\ IsEmpty(parcels)) => (errorShown = "none" /\ pc # "stopped")

\* C5: every buffer or distance computation is executed on geometries in a
\* projected (linear-unit) CRS, never on geographic degrees.
C5_MetricOpsProjected == \A m \in metricOps : m.crs = "projected"

\* C6: when preprocess_data fails on its input geometries the run is aborted
\* with the error reported; it does not continue with a substituted result.
C6_FailureAborts ==
    callInfo.raised => (pc = "stopped" /\ errorShown # "none")

\* C7: preprocess_data returns a collection with the feature count and order of
\* its parcel input and leaves the input collection as it was before the call.
C7_InputUnchanged ==
    pc = "annotated" =>
        /\ parcels.rows = argBefore.rows
        /\ parcels.geometry = argBefore.geometry
        /\ argParcels = argBefore

\* C8: in a run where the submitted address is empty or geocode returned no
\* point, the nearest-parcel lookup is not executed.
C8_NoLookupWithoutPoint ==
    (pc \in {"panel", "end", "crashed"} /\ (address = "" \/ point = <<>>))
        => ~LookupDone

\* C8 witness: a submitted, non-empty address for which geocode returned no point
\* has passed the form without a lookup.
C8_Witness ==
    /\ pc = "panel"
    /\ submitted
    /\ address # ""
    /\ point = <<>>
    /\ ~LookupDone

\* C9: the load stage stops the run iff at least one of the three datasets is
\* empty; when all three are non-empty preprocess_data is executed and the run
\* goes on to the main map.
C9_StopsIffEmpty ==
    pc # "start" =>
        /\ (pc = "stopped") <=> AnyEmpty
        /\ ~AnyEmpty => (callInfo.ran /\ pc = "ui")

FailedSearch ==
    /\ pc = "ui"
    /\ pc' # "ui"
    /\ (~submitted' \/ address' = "" \/ point' = <<>>)

SessionPaired ==
    /\ (session.search_point # <<>>) <=> (session.nearest_parcel # <<>>)
    /\ session.search_point # <<>> =>
           session.nearest_parcel =
               <<Row(parcels,
                     ArgsortFirst(DistanceSeries(parcels, session.search_point[1]),
                                  argsortTie))>>

\* C10: session state holds search_point iff it holds nearest_parcel, the stored
\* parcel is the one selected for the stored point, and a search that fails
\* leaves both entries as they were.
C10_SessionPaired ==
    /\ []SessionPaired
    /\ [][FailedSearch => session' = session]_vars

\* C10 witness: a later run's search failed while both entries of an earlier
\* successful search are still stored.
C10_Witness ==
    /\ pc = "panel"
    /\ submitted
    /\ point = <<>>
    /\ session.search_point # <<>>
    /\ session.nearest_parcel # <<>>

====
